---- MODULE Spec2Model ----
(***************************************************************************)
(* Game resolution engine of shadowrun-backend: the dice engine            *)
(* (utils/dice_roller.py with the notation validator of                    *)
(* utils/validators.py), the combat tracker (routes/combat.py) and the     *)
(* Matrix engine (routes/matrix.py) over the rows of app.py.               *)
(*                                                                         *)
(* A call of the dice engine is modelled as one atomic action: Init        *)
(* chooses the operation and its arguments, the action runs the whole      *)
(* method and leaves either a returned result or a raised error.  Every    *)
(* value random.randint returns is a nondeterministic choice; `draws'      *)
(* counts the calls of randint.                                            *)
(*                                                                         *)
(* A request of the combat tracker or of the Matrix engine is one atomic   *)
(* action over the stored rows: the whole handler up to its commit.  A     *)
(* rejected request (4xx, or an exception before the commit) leaves every  *)
(* row as it was.  Spec is the dice engine; SpecDamage, SpecTurns,         *)
(* SpecCombat, SpecMatrix and SpecGrid are the specifications of the       *)
(* stored rows.  SpecRace splits apply_damage at its load and its commit   *)
(* to follow requests served side by side; SpecReview is the DM review of  *)
(* a pending AI response (review_response of app.py).                      *)
(***************************************************************************)
EXTENDS Integers, Sequences, FiniteSets, TLC

VARIABLES
    op,      \* the method called: "roll", "roll_shadowrun", "roll_initiative", "roll_extended_test"
    args,    \* its arguments
    pc,      \* "call" (pending), "returned", "raised"
    result,  \* the returned value (NoResult while pending or after a raise)
    draws,   \* number of random.randint calls made by the call
    combat,      \* the Combat row: status, current_round, active_combatant_index
    combatants,  \* the Combatant rows of the encounter, in insertion order (the id is the position)
    combat_log,  \* number of CombatAction rows
    turn_obs,    \* history of SpecTurns: accepted next_turn calls and the rows they started from
    nodes,       \* the discovered and compromised flags of the MatrixNode rows
    persona,     \* the MatrixPersona row: attributes and overwatch_score
    ice,         \* the IceProgram row: status, position, last_action
    matrix_log,  \* number of MatrixAction rows added
    inflight,    \* the apply_damage requests running side by side, each with the row it loaded
    pending,     \* the PendingResponse row: status, final_response, dm_notes
    review_history  \* the ReviewHistory rows, oldest first

diceVars == <<op, args, pc, result, draws>>

combatVars == <<combat, combatants, combat_log, turn_obs>>

matrixVars == <<nodes, persona, ice, matrix_log>>

raceVars == <<inflight>>

reviewVars == <<pending, review_history>>

vars == <<op, args, pc, result, draws, combat, combatants, combat_log, turn_obs,
          nodes, persona, ice, matrix_log, inflight, pending, review_history>>

----------------------------------------------------------------------------
(* Bounds of the model *)

MaxLen == 4          \* notations of every length up to MaxLen are enumerated
MaxFullDice == 2     \* roll(): every outcome is enumerated up to this many dice ...
MaxFullFace == 3     \* ... of at most this many faces; larger rolls draw uniform outcomes
MaxPool == 3         \* roll_shadowrun: every outcome is enumerated up to this pool
MaxExtra == 2        \* cap on the dice one call adds by exploding 6s
MaxInitDice == 2     \* largest initiative_dice
MaxAttr == 1         \* reaction and intuition range over 0..MaxAttr
MaxExtPool == 2      \* roll_extended_test: largest in-range dice_pool
MaxDraws == 4        \* cap on the randint calls of one roll_extended_test call
MaxThreshold == 2    \* thresholds range over 0..MaxThreshold
MaxMaxRolls == 2     \* max_rolls ranges over None and 0..MaxMaxRolls
MaxMonitor == 3      \* SpecDamage: condition monitors range over 1..MaxMonitor
MaxRoster == 2       \* largest number of Combatant rows of the encounter
MaxFullRoster == 1   \* roll_initiative: every face is enumerated up to this roster
MaxRound == 2        \* next_turn is followed up to this current_round
MaxTurns == 3        \* SpecTurns: accepted next_turn calls that are followed
MaxLog == 1          \* cap on the CombatAction rows
MaxMatrixLog == 1    \* cap on the MatrixAction rows added
MaxTicks == 1        \* cap on the accepted ICE behaviour updates
MaxRequests == 2     \* apply_damage requests running side by side
MaxReviews == 3      \* cap on the ReviewHistory rows

----------------------------------------------------------------------------
(* Program constants *)

SHADOWRUN_D6 == 6
SHADOWRUN_SUCCESS_THRESHOLD == 5
MAX_DICE_NOTATION_LENGTH == 20
MaxDice == 20
MaxDiceSize == 100
MinPool == 1
MaxDicePool == 50

NoResult == [kind |-> "none"]
\* Optional[int]: None is the empty tuple, an integer n is <<n>>
None == <<>>
Some(n) == <<n>>

\* the dice engine holds no row of the combat tracker
NoCombat ==
    /\ combat = None
    /\ combatants = <<>>
    /\ combat_log = 0
    /\ turn_obs = None

\* nor a row of the Matrix engine
NoMatrix ==
    /\ nodes = None
    /\ persona = None
    /\ ice = None
    /\ matrix_log = 0

\* no apply_damage request is under way and no response awaits review
NoRequests ==
    /\ inflight = <<>>
    /\ pending = None
    /\ review_history = <<>>

\* the stored rows are not touched through a pending dice call
NoDiceCall ==
    /\ op = "none"
    /\ args = <<>>
    /\ pc = "idle"
    /\ result = NoResult
    /\ draws = 0

----------------------------------------------------------------------------
(* Characters.  A notation is a sequence of characters; a character is a   *)
(* one-element token.  Tokens starting with "U+" are non-ASCII code        *)
(* points: U+0663 ARABIC-INDIC DIGIT THREE, U+0666 ARABIC-INDIC DIGIT SIX, *)
(* U+0E53 THAI DIGIT THREE, U+FF13 FULLWIDTH DIGIT THREE, U+FF44 FULLWIDTH *)
(* LATIN SMALL LETTER D, U+2462 CIRCLED DIGIT THREE, U+1F525 FIRE (emoji). *)

AsciiDigits == {"0", "1", "2", "3", "4", "5", "6", "7", "8", "9"}
UnicodeDecimalDigits == {"U+0663", "U+0666", "U+0E53", "U+FF13"}
Whitespace == {" ", "\n", "\t"}

\* Python `\d' on a str pattern: every character of Unicode category Nd
\* (re module default for str patterns, validators.py:133, dice_roller.py:48)
Digits == AsciiDigits \cup UnicodeDecimalDigits

\* int() of one decimal digit character (int accepts every Nd digit)
DigitValue(c) ==
    CASE c = "0" -> 0 [] c = "1" -> 1 [] c = "2" -> 2 [] c = "3" -> 3
      [] c = "4" -> 4 [] c = "5" -> 5 [] c = "6" -> 6 [] c = "7" -> 7
      [] c = "8" -> 8 [] c = "9" -> 9
      [] c = "U+0663" -> 3 [] c = "U+0666" -> 6
      [] c = "U+0E53" -> 3 [] c = "U+FF13" -> 3
      [] OTHER -> 0

\* str.lower() on one character (the only cased character of the model's
\* alphabet whose lower case differs is "D")
LowerChar(c) == IF c = "D" THEN "d" ELSE c

lower(s) == [i \in 1..Len(s) |-> LowerChar(s[i])]

\* str.strip(): drop leading and trailing whitespace
RECURSIVE lstrip(_)
lstrip(s) == IF s # <<>> /\ Head(s) \in Whitespace THEN lstrip(Tail(s)) ELSE s

RECURSIVE rstrip(_)
rstrip(s) ==
    IF s # <<>> /\ s[Len(s)] \in Whitespace
    THEN rstrip(SubSeq(s, 1, Len(s) - 1)) ELSE s

strip(s) == rstrip(lstrip(s))

\* int() of a run of decimal digits
RECURSIVE IntOfDigits(_)
IntOfDigits(s) ==
    IF s = <<>> THEN 0
    ELSE 10 * IntOfDigits(SubSeq(s, 1, Len(s) - 1)) + DigitValue(s[Len(s)])

\* int() of a signed modifier group such as "+5" or "-2"
IntOfSigned(s) ==
    IF Head(s) = "-" THEN 0 - IntOfDigits(Tail(s)) ELSE IntOfDigits(Tail(s))

\* length of the run of characters of the class D that starts at s[i]
RECURSIVE RunFrom(_, _, _)
RunFrom(s, i, D) ==
    IF i <= Len(s) /\ s[i] \in D THEN 1 + RunFrom(s, i + 1, D) ELSE 0

NoMatch == [ok |-> FALSE, g1 |-> <<>>, g2 |-> <<>>, g3 |-> <<>>]

\* re.match of ^(D{1,maxA})d(D{1,maxB})([+\-]D{1,maxM})?$ on s, where D is
\* the digit class.  Returns the three groups (g3 empty when absent).
DiceMatch(s, maxA, maxB, maxM, D) ==
    LET a == RunFrom(s, 1, D)
        b == RunFrom(s, a + 2, D)
        e == a + 1 + b          \* index of the last character of group 2
        m == RunFrom(s, e + 2, D)
    IN  IF ~(1 <= a /\ a <= maxA /\ a + 1 <= Len(s) /\ s[a + 1] = "d")
        THEN NoMatch
        ELSE IF ~(1 <= b /\ b <= maxB) THEN NoMatch
        ELSE IF e = Len(s)
             THEN [ok |-> TRUE, g1 |-> SubSeq(s, 1, a),
                   g2 |-> SubSeq(s, a + 2, e), g3 |-> <<>>]
        ELSE IF s[e + 1] \in {"+", "-"} /\ 1 <= m /\ m <= maxM /\ e + 1 + m = Len(s)
             THEN [ok |-> TRUE, g1 |-> SubSeq(s, 1, a),
                   g2 |-> SubSeq(s, a + 2, e), g3 |-> SubSeq(s, e + 1, Len(s))]
        ELSE NoMatch

----------------------------------------------------------------------------
(* utils/validators.py: DiceNotationSchema *)

\* Field(..., min_length=1, max_length=MAX_DICE_NOTATION_LENGTH), checked on
\* the string as given
FieldLengthOk(v) == 1 <= Len(v) /\ Len(v) <= MAX_DICE_NOTATION_LENGTH

\* "if num_dice > 20: raise"
ValidatorRejectsCount(num_dice) == num_dice > MaxDice

\* "if dice_size > 100: raise"
ValidatorRejectsSize(dice_size) == dice_size > MaxDiceSize

\* validate_dice_notation: [ok, notation]; notation is the stripped string
validate_dice_notation(raw) ==
    LET v == strip(raw)
        mt == DiceMatch(lower(v), 2, 3, 2, Digits)
    IN  IF ~FieldLengthOk(raw) THEN [ok |-> FALSE, notation |-> <<>>]
        ELSE IF ~mt.ok THEN [ok |-> FALSE, notation |-> <<>>]
        ELSE IF ValidatorRejectsCount(IntOfDigits(mt.g1))
             THEN [ok |-> FALSE, notation |-> <<>>]
        ELSE IF ValidatorRejectsSize(IntOfDigits(mt.g2))
             THEN [ok |-> FALSE, notation |-> <<>>]
        ELSE [ok |-> TRUE, notation |-> v]

----------------------------------------------------------------------------
(* utils/dice_roller.py: parse_notation and roll *)

\* parse_notation: [ok, num_dice, dice_size, modifier]; ~ok is ValueError
parse_notation(raw) ==
    LET vd == validate_dice_notation(raw)
        s == lower(vd.notation)
        mt == DiceMatch(s, Len(s), Len(s), Len(s), Digits)
    IN  IF ~vd.ok \/ ~mt.ok
        THEN [ok |-> FALSE, num_dice |-> 0, dice_size |-> 0, modifier |-> 0]
        ELSE [ok |-> TRUE,
              num_dice |-> IntOfDigits(mt.g1),
              dice_size |-> IntOfDigits(mt.g2),
              modifier |-> IF mt.g3 = <<>> THEN 0 ELSE IntOfSigned(mt.g3)]

RECURSIVE Sum(_)
Sum(s) == IF s = <<>> THEN 0 ELSE Head(s) + Sum(Tail(s))

RollTotalMutant(rolls, modifier) == Sum(rolls)

\* "total = sum(rolls) + modifier"
RollTotal(rolls, modifier) == Sum(rolls) + modifier

\* The values [randint(1, dice_size) for _ in range(num_dice)] can take.
\* Every outcome is enumerated for small rolls; for larger ones only the
\* outcomes in which all dice show the same extreme face.
RollOutcomes(num_dice, dice_size) ==
    IF num_dice <= MaxFullDice /\ dice_size <= MaxFullFace
    THEN [1..num_dice -> 1..dice_size]
    ELSE {[i \in 1..num_dice |-> v] : v \in {1, dice_size}}

\* DiceRoller.roll(notation)
Roll ==
    /\ op = "roll" /\ pc = "call"
    /\ LET p == parse_notation(args.notation)
       IN  IF ~p.ok
           THEN \* ValueError from parse_notation
                /\ pc' = "raised" /\ result' = NoResult /\ draws' = draws
           ELSE IF p.num_dice >= 1 /\ p.dice_size < 1
           THEN \* the first randint(1, 0) raises ValueError (empty range)
                /\ pc' = "raised" /\ result' = NoResult /\ draws' = draws
           ELSE \E rolls \in RollOutcomes(p.num_dice, p.dice_size) :
                /\ pc' = "returned"
                /\ draws' = draws + p.num_dice
                /\ result' = [kind |-> "DiceRoll",
                              num_dice |-> p.num_dice,
                              dice_size |-> p.dice_size,
                              modifier |-> p.modifier,
                              rolls |-> rolls,
                              total |-> RollTotal(rolls, p.modifier)]
    /\ UNCHANGED <<op, args>>
    /\ UNCHANGED combatVars
    /\ UNCHANGED <<matrixVars, raceVars, reviewVars>>

----------------------------------------------------------------------------
(* utils/dice_roller.py: roll_shadowrun *)

Max(a, b) == IF a >= b THEN a ELSE b

\* number of entries of s that belong to the set V
RECURSIVE Count(_, _)
Count(s, V) ==
    IF s = <<>> THEN 0
    ELSE (IF Head(s) \in V THEN 1 ELSE 0) + Count(Tail(s), V)

Faces == 1..SHADOWRUN_D6

\* "if roll >= self.SHADOWRUN_SUCCESS_THRESHOLD"
IsHit(r) == r >= SHADOWRUN_SUCCESS_THRESHOLD

ExplodesMutant(r) == r >= SHADOWRUN_SUCCESS_THRESHOLD

\* "if roll == 6: new_sixes.append(roll)" and "sixes = [r for r in rolls if r == 6]"
Explodes(r) == r = 6

HitsOf(s) == Count(s, {r \in Faces : IsHit(r)})

SixesOf(s) == Count(s, {r \in Faces : Explodes(r)})

ExtraHitsMutant(extra_rolls) == 0

\* hits counted inside the explosion loop, over every extra roll
ExtraHits(extra_rolls) == HitsOf(extra_rolls)

\* ones counted by the initial loop; the explosion loop counts no ones
OnesCounted(initial, extra_rolls) == Count(initial, {1})

GlitchMutant(ones, rolls) == 2 * ones >= Len(rolls)

\* "glitch = ones > len(rolls) * self.SHADOWRUN_GLITCH_THRESHOLD" (0.5)
Glitch(ones, rolls) == 2 * ones > Len(rolls)

\* "critical_glitch = glitch and hits == 0"
CriticalGlitch(glitch, hits) == glitch /\ hits = 0

\* The explosion loop "while sixes:" reading its randint values from tape
\* after the first pos entries: each wave draws one die per pending six.
\* Returns the number of tape entries consumed when the loop ends, or -1
\* when the tape holds fewer values than the loop draws.
RECURSIVE ExplodeEnd(_, _, _)
ExplodeEnd(tape, pos, sixes) ==
    IF sixes = 0 THEN pos
    ELSE IF pos + sixes > Len(tape) THEN 0 - 1
    ELSE ExplodeEnd(tape, pos + sixes, SixesOf(SubSeq(tape, pos + 1, pos + sixes)))

\* "if dice_pool < 1: raise ... if dice_pool > 50: raise"
PoolRejected(dice_pool) == dice_pool < MinPool \/ dice_pool > MaxDicePool

\* roll_shadowrun(dice_pool, edge_used) for an accepted pool, the successive
\* values of randint being the entries of tape.  exact: the call draws
\* exactly Len(tape) values.
roll_shadowrun(dice_pool, edge_used, tape) ==
    LET n == IF dice_pool <= Len(tape) THEN dice_pool ELSE Len(tape)
        initial == SubSeq(tape, 1, n)
        end == IF edge_used THEN ExplodeEnd(tape, n, SixesOf(initial)) ELSE n
        extra_rolls == IF end >= n THEN SubSeq(tape, n + 1, end) ELSE <<>>
        rolls == initial \o extra_rolls
        hits == HitsOf(initial) + (IF edge_used THEN ExtraHits(extra_rolls) ELSE 0)
        ones == OnesCounted(initial, extra_rolls)
        glitch == Glitch(ones, rolls)
    IN  [exact |-> n = dice_pool /\ end = Len(tape),
         res |-> [kind |-> "pool",
                  dice_pool |-> dice_pool,
                  rolls |-> rolls,
                  hits |-> hits,
                  ones |-> ones,
                  glitch |-> glitch,
                  critical_glitch |-> CriticalGlitch(glitch, hits),
                  edge_used |-> edge_used]]

\* outcomes of the initial loop: all of them for pools up to MaxPool, for
\* larger pools the outcomes in which every die shows the same face
InitialOutcomes(n) ==
    IF n <= MaxPool THEN [1..n -> Faces]
    ELSE {[i \in 1..n |-> v] : v \in Faces}

\* outcomes of the explosion loop, at most MaxExtra dice
ExtraOutcomes == UNION {[1..n -> Faces] : n \in 0..MaxExtra}

\* the draws of the end-to-end example: twelve dice, then one die for each
\* of the three sixes
ExampleTapes == {<<6, 6, 5, 1, 1, 1, 2, 3, 4, 6, 5, 2, 3, 4, 2>>}

PoolTapes(n, edge_used) ==
    IF edge_used
    THEN {i \o x : i \in InitialOutcomes(n), x \in ExtraOutcomes} \cup ExampleTapes
    ELSE InitialOutcomes(n)

\* DiceRoller.roll_shadowrun(dice_pool, edge_used)
RollShadowrun ==
    /\ op = "roll_shadowrun" /\ pc = "call"
    /\ IF PoolRejected(args.dice_pool)
       THEN /\ pc' = "raised" /\ result' = NoResult /\ draws' = draws
       ELSE \E tape \in PoolTapes(args.dice_pool, args.edge_used) :
            LET r == roll_shadowrun(args.dice_pool, args.edge_used, tape)
            IN  /\ r.exact
                /\ pc' = "returned"
                /\ result' = r.res
                /\ draws' = draws + Len(tape)
    /\ UNCHANGED <<op, args>>
    /\ UNCHANGED combatVars
    /\ UNCHANGED <<matrixVars, raceVars, reviewVars>>

----------------------------------------------------------------------------
(* utils/dice_roller.py: roll_initiative *)

\* number of iterations of "for _ in range(initiative_dice)"
RangeLen(n) == Max(0, n)

\* roll_initiative(reaction, intuition, initiative_dice, edge_used) on a tape
roll_initiative(reaction, intuition, initiative_dice, edge_used, tape) ==
    LET n == IF RangeLen(initiative_dice) <= Len(tape)
             THEN RangeLen(initiative_dice) ELSE Len(tape)
        initial == SubSeq(tape, 1, n)
        end == IF edge_used THEN ExplodeEnd(tape, n, SixesOf(initial)) ELSE n
        extra_rolls == IF end >= n THEN SubSeq(tape, n + 1, end) ELSE <<>>
        dice_rolls == initial \o extra_rolls
        base == reaction + intuition
    IN  [exact |-> n = RangeLen(initiative_dice) /\ end = Len(tape),
         res |-> [kind |-> "initiative",
                  base |-> base,
                  dice_rolls |-> dice_rolls,
                  total |-> base + Sum(dice_rolls),
                  edge_used |-> edge_used]]

\* DiceRoller.roll_initiative(reaction, intuition, initiative_dice, edge_used)
RollInitiative ==
    /\ op = "roll_initiative" /\ pc = "call"
    /\ \E tape \in PoolTapes(RangeLen(args.initiative_dice), args.edge_used) :
            LET r == roll_initiative(args.reaction, args.intuition,
                                     args.initiative_dice, args.edge_used, tape)
            IN  /\ r.exact
                /\ pc' = "returned"
                /\ result' = r.res
                /\ draws' = draws + Len(tape)
    /\ UNCHANGED <<op, args>>
    /\ UNCHANGED combatVars
    /\ UNCHANGED <<matrixVars, raceVars, reviewVars>>

----------------------------------------------------------------------------
(* utils/dice_roller.py: roll_extended_test *)

\* truth value of "max_rolls" in "if max_rolls and rolls_made > max_rolls"
Truthy(max_rolls) == max_rolls # None /\ max_rolls[1] # 0

CurrentPoolMutant(dice_pool, rolls_made) == Max(1, dice_pool - rolls_made)

\* "current_pool = max(1, dice_pool - (rolls_made - 1))"
CurrentPool(dice_pool, rolls_made) == Max(1, dice_pool - (rolls_made - 1))

\* "while total_hits < threshold"
LoopContinues(total_hits, threshold) == total_hits < threshold

ExtStart ==
    [rolls_made |-> 0, total_hits |-> 0, roll_history |-> <<>>,
     glitched |-> FALSE, pos |-> 0, end |-> "run"]

\* The while loop of roll_extended_test from the loop state st, reading the
\* randint values from tape after the first st.pos entries.  end is "done"
\* (loop left), "raised" (roll_shadowrun raised ValueError) or "short" (the
\* tape holds fewer values than the loop draws).
RECURSIVE ExtendedLoop(_, _, _, _, _)
ExtendedLoop(dice_pool, threshold, max_rolls, tape, st) ==
    IF ~LoopContinues(st.total_hits, threshold) THEN [st EXCEPT !.end = "done"]
    ELSE
      LET rolls_made == st.rolls_made + 1
          current_pool == CurrentPool(dice_pool, rolls_made)
      IN  IF Truthy(max_rolls) /\ rolls_made > max_rolls[1]
          THEN [st EXCEPT !.rolls_made = rolls_made, !.end = "done"]
          ELSE IF PoolRejected(current_pool)
          THEN [st EXCEPT !.rolls_made = rolls_made, !.end = "raised"]
          ELSE IF st.pos + current_pool > Len(tape)
          THEN [st EXCEPT !.end = "short"]
          ELSE
            LET r == roll_shadowrun(current_pool, FALSE,
                         SubSeq(tape, st.pos + 1, st.pos + current_pool)).res
                st2 == [rolls_made |-> rolls_made,
                        total_hits |-> st.total_hits + r.hits,
                        roll_history |-> Append(st.roll_history, r),
                        glitched |-> st.glitched \/ r.glitch,
                        pos |-> st.pos + current_pool,
                        end |-> "run"]
            IN  IF r.critical_glitch THEN [st2 EXCEPT !.end = "done"]
                ELSE ExtendedLoop(dice_pool, threshold, max_rolls, tape, st2)

ExtTapes == UNION {[1..n -> Faces] : n \in 0..MaxDraws}

\* DiceRoller.roll_extended_test(dice_pool, threshold, max_rolls=...)
RollExtendedTest ==
    /\ op = "roll_extended_test" /\ pc = "call"
    /\ \E tape \in ExtTapes :
         LET st == ExtendedLoop(args.dice_pool, args.threshold, args.max_rolls,
                                tape, ExtStart)
         IN  /\ st.end \in {"done", "raised"}
             /\ st.pos = Len(tape)
             /\ draws' = draws + Len(tape)
             /\ IF st.end = "raised"
                THEN pc' = "raised" /\ result' = NoResult
                ELSE /\ pc' = "returned"
                     /\ result' = [kind |-> "extended",
                                   success |-> st.total_hits >= args.threshold,
                                   threshold |-> args.threshold,
                                   total_hits |-> st.total_hits,
                                   rolls_made |-> st.rolls_made,
                                   roll_history |-> st.roll_history,
                                   glitched |-> st.glitched]
    /\ UNCHANGED <<op, args>>
    /\ UNCHANGED combatVars
    /\ UNCHANGED <<matrixVars, raceVars, reviewVars>>

----------------------------------------------------------------------------
(* Inputs *)

Alphabet == {"0", "1", "2", "U+0663", "d", "D", "+", "-", " ", "."}

\* notations of the repository's tests and of the spec's examples
TestNotations == {
    <<"3","d","6">>, <<"2","d","1","0","+","5">>, <<"4","d","8","-","2">>,
    <<"2","0","d","6">>, <<"1","0","d","1","0","0">>, <<"2","0","d","1","0","0">>,
    <<"5","d","6","+","9","9">>, <<"5","d","6","-","9","9">>,
    <<"2","1","d","6">>, <<"5","d","1","0","1">>, <<"0","d","6">>, <<"3","d","0">>,
    <<"1","0","0","d","1","0","0">>, <<"5","d","1","0","0","0">>,
    <<"3","d","6","+">>, <<"3","d","6","+","5","+","2">>, <<"3",".","5","d","6">>,
    <<"3","d","6","+","+","5">>, <<"3","d","6","+","-","5">>,
    <<"3","d","6"," ","+"," ","2">>, <<" ","3","D","6","\n">>,
    <<"U+0663","d","U+0666">>, <<"U+FF13","U+FF44","U+FF13">>,
    <<"U+0E53","d","U+0E53">>, <<"U+2462","d","U+2462">>,
    <<"1","0","d","U+1F525">>, <<"3","d","6","+","U+0663">>,
    <<" "," "," "," "," "," "," "," "," "," "," "," "," "," "," "," "," "," ","3","d","6">>
  }

Notations ==
    UNION {[1..n -> Alphabet] : n \in 0..MaxLen} \cup TestNotations

InitCommon ==
    /\ pc = "call"
    /\ result = NoResult
    /\ draws = 0
    /\ NoCombat
    /\ NoMatrix
    /\ NoRequests

InitRoll ==
    /\ op = "roll"
    /\ \E n \in Notations : args = [notation |-> n]
    /\ InitCommon

\* pools: every size around the lower limit, and the two sides of the upper one
\* and the pools of the tests (6) and of the end-to-end example (12)
Pools == (0 - 1)..MaxPool \cup {6, 12, MaxDicePool, MaxDicePool + 1}

InitPool ==
    /\ op = "roll_shadowrun"
    /\ \E p \in Pools, e \in BOOLEAN : args = [dice_pool |-> p, edge_used |-> e]
    /\ InitCommon

InitInitiative ==
    /\ op = "roll_initiative"
    /\ \E re \in 0..MaxAttr, it \in 0..MaxAttr, n \in (0 - 1)..MaxInitDice, e \in BOOLEAN :
          args = [reaction |-> re, intuition |-> it, initiative_dice |-> n, edge_used |-> e]
    /\ InitCommon

ExtPools == (0 - 1)..MaxExtPool \cup {MaxDicePool + 1}

InitExtended ==
    /\ op = "roll_extended_test"
    /\ \E p \in ExtPools, t \in 0..MaxThreshold, m \in {None} \cup {Some(k) : k \in 0..MaxMaxRolls} :
          args = [dice_pool |-> p, threshold |-> t, max_rolls |-> m]
    /\ InitCommon

Init == InitRoll \/ InitPool \/ InitInitiative \/ InitExtended

Next == Roll \/ RollShadowrun \/ RollInitiative \/ RollExtendedTest

Spec == Init /\ [][Next]_vars

----------------------------------------------------------------------------
(* Combat tracker: routes/combat.py over the Combat, Combatant and          *)
(* CombatAction rows of app.py                                              *)

Min(a, b) == IF a <= b THEN a ELSE b

\* the session's game master and another participant
Users == {"gm", "player"}

IsGM(user) == user = "gm"

\* the stored encounter and an id no Combat row has
CombatIds == {"c1", "unknown"}

DefaultInitiative == 10
DefaultReaction == 5
DefaultIntuition == 3
DefaultMonitor == 10
DefaultActions == 1

\* Combat row as create_combat leaves it
NewCombat == [status |-> "setup", current_round |-> 1, active_combatant_index |-> 0]

\* Combatant row as add_combatant stores it
NewCombatant(initiative, reaction, intuition, physical_monitor, stun_monitor) ==
    [initiative |-> initiative, reaction |-> reaction, intuition |-> intuition,
     initiative_score |-> 0, actions |-> DefaultActions,
     physical_damage |-> 0, stun_damage |-> 0,
     physical_monitor |-> physical_monitor, stun_monitor |-> stun_monitor,
     status |-> "active"]

\* the row of a request that names no attribute
DefaultCombatant ==
    NewCombatant(DefaultInitiative, DefaultReaction, DefaultIntuition, DefaultMonitor, DefaultMonitor)

ClampDamageMutant(x, monitor) == Min(x, monitor)
\* max(0, min(damage + delta, monitor))
ClampDamage(x, monitor) == Max(0, Min(x, monitor))

StatusAfterDamageMutant(c, physical, stun) ==
    IF stun >= c.stun_monitor THEN "unconscious"
    ELSE IF physical >= c.physical_monitor THEN "dead"
    ELSE c.status
\* the if / elif over the new damage; no branch for the remaining case
StatusAfterDamage(c, physical, stun) ==
    IF physical >= c.physical_monitor THEN "dead"
    ELSE IF stun >= c.stun_monitor THEN "unconscious"
    ELSE c.status

DamagedMutant(c, physical_delta, stun_delta) ==
    LET physical == ClampDamage(c.physical_damage + physical_delta, c.physical_monitor)
        stun == ClampDamage(c.stun_damage + stun_delta, c.stun_monitor)
    IN  [c EXCEPT !.physical_damage = physical,
                  !.stun_damage = stun,
                  !.status = StatusAfterDamage([c EXCEPT !.status = "active"], physical, stun)]
\* the row after the assignments of an accepted apply_damage
Damaged(c, physical_delta, stun_delta) ==
    LET physical == ClampDamage(c.physical_damage + physical_delta, c.physical_monitor)
        stun == ClampDamage(c.stun_damage + stun_delta, c.stun_monitor)
    IN  [c EXCEPT !.physical_damage = physical,
                  !.stun_damage = stun,
                  !.status = StatusAfterDamage(c, physical, stun)]

DamageRejectedMutant(user, id) == id \notin DOMAIN combatants
\* apply_damage answers 403 to a non-GM and 404 for an unknown combatant
DamageRejected(user, id) == ~IsGM(user) \/ id \notin DOMAIN combatants

\* the HTTP status apply_damage answers with
DamageStatus(user, id) ==
    IF ~IsGM(user) THEN 403
    ELSE IF id \notin DOMAIN combatants THEN 404
    ELSE 200

\* one apply_damage request
ApplyDamageCall(user, id, physical_delta, stun_delta) ==
    /\ combatants' =
          IF DamageRejected(user, id) THEN combatants
          ELSE [combatants EXCEPT ![id] = Damaged(combatants[id], physical_delta, stun_delta)]
    /\ UNCHANGED <<combat, combat_log, turn_obs>>
    /\ UNCHANGED <<diceVars, matrixVars, raceVars, reviewVars>>

\* a delta no monitor of the model absorbs
BigDelta == 100

DamageDeltas == {0 - BigDelta, 0 - 1, 0, 1, BigDelta}

\* ids of the stored combatants and one id no row has
CombatantIds == 1..(Len(combatants) + 1)

ApplyDamage ==
    \E user \in Users, id \in CombatantIds, pd \in DamageDeltas, sd \in DamageDeltas :
        ApplyDamageCall(user, id, pd, sd)

\* one fresh combatant of an encounter in setup, of any monitors
InitDamage ==
    /\ NoDiceCall
    /\ NoMatrix
    /\ NoRequests
    /\ combat = NewCombat
    /\ \E pm \in 1..MaxMonitor, sm \in 1..MaxMonitor :
          combatants = <<NewCombatant(DefaultInitiative, DefaultReaction, DefaultIntuition, pm, sm)>>
    /\ combat_log = 0
    /\ turn_obs = None

NextDamage == ApplyDamage

SpecDamage == InitDamage /\ [][NextDamage]_vars

----------------------------------------------------------------------------
(* Combat tracker: turns *)

\* next_turn answers 403 to a non-GM, 404 for an unknown combat and 400 for
\* an empty roster
NextTurnRejected(user, combat_id) ==
    ~IsGM(user) \/ combat_id # "c1" \/ combatants = <<>>

RoundCompleteMutant(index, n) == index > n
\* active_combatant_index >= len(combatants)
RoundComplete(index, n) == index >= n

\* the HTTP status next_turn answers with
NextTurnStatus(user, combat_id) ==
    IF ~IsGM(user) THEN 403
    ELSE IF combat_id # "c1" THEN 404
    ELSE IF combatants = <<>> THEN 400
    ELSE 200

\* one next_turn request
NextTurnCall(user, combat_id) ==
    /\ IF NextTurnRejected(user, combat_id)
       THEN UNCHANGED <<combat, combatants>>
       ELSE LET index == combat.active_combatant_index + 1
            IN  IF RoundComplete(index, Len(combatants))
                THEN /\ combat' = [combat EXCEPT !.active_combatant_index = 0,
                                                 !.current_round = @ + 1]
                     /\ combatants' = [i \in DOMAIN combatants |->
                            [combatants[i] EXCEPT !.actions = Max(0, @ - 1)]]
                ELSE /\ combat' = [combat EXCEPT !.active_combatant_index = index]
                     /\ UNCHANGED combatants
    /\ UNCHANGED combat_log
    /\ UNCHANGED <<diceVars, matrixVars, raceVars, reviewVars>>

\* one record_action request: a CombatAction row is added, by any caller
RecordActionCall ==
    /\ combat_log' = combat_log + 1
    /\ UNCHANGED <<combat, combatants, turn_obs>>
    /\ UNCHANGED <<diceVars, matrixVars, raceVars, reviewVars>>

RecordAction ==
    /\ combat_log < MaxLog
    /\ RecordActionCall

\* initiative + intuition + roll
InitiativeScoreMutant(c, roll) == c.reaction + c.intuition + roll
InitiativeScore(c, roll) == c.initiative + c.intuition + roll

StartedCombatMutant == [status |-> "active", current_round |-> 0, active_combatant_index |-> 0]
\* Combat row as roll_initiative leaves it
StartedCombat == [status |-> "active", current_round |-> 1, active_combatant_index |-> 0]

\* next_turn, with the count of the accepted calls kept in turn_obs
ObservedNextTurn ==
    \E user \in Users, combat_id \in CombatIds :
        /\ turn_obs.calls < MaxTurns
        /\ NextTurnCall(user, combat_id)
        /\ turn_obs' = IF NextTurnRejected(user, combat_id) THEN turn_obs
                       ELSE [turn_obs EXCEPT !.calls = @ + 1]

\* a started encounter at active_combatant_index 0 with a roster of 1..MaxRoster
\* combatants; a combatant has the actions it was stored with or none left
InitTurns ==
    /\ NoDiceCall
    /\ NoMatrix
    /\ NoRequests
    /\ combat = StartedCombat
    /\ \E n \in 1..MaxRoster :
       \E acts \in [1..n -> {0, DefaultActions}], rolls \in [1..n -> {1, 6}] :
          /\ combatants = [i \in 1..n |->
                [DefaultCombatant EXCEPT !.actions = acts[i],
                                         !.initiative_score = InitiativeScore(DefaultCombatant, rolls[i])]]
          /\ turn_obs = [calls |-> 0, current_round |-> 1, actions |-> acts]
    /\ combat_log = 0

NextTurns == ObservedNextTurn \/ RecordAction

SpecTurns == InitTurns /\ [][NextTurns]_vars

----------------------------------------------------------------------------
(* Combat tracker: life cycle of the encounter *)

\* one add_combatant request; 403 to a non-GM
AddCombatantCall(user, c) ==
    /\ combatants' = IF IsGM(user) THEN Append(combatants, c) ELSE combatants
    /\ UNCHANGED <<combat, combat_log, turn_obs>>
    /\ UNCHANGED <<diceVars, matrixVars, raceVars, reviewVars>>

AddCombatant ==
    /\ Len(combatants) < MaxRoster
    /\ \E user \in Users : AddCombatantCall(user, DefaultCombatant)

D6 == 1..6

\* every face for a roster of up to MaxFullRoster, the lowest and the highest
\* face for a larger one
RollFaces(n) == IF n <= MaxFullRoster THEN D6 ELSE {1, 6}

\* roll_initiative answers 403 to a non-GM; under an unknown combat id it
\* finds no combatant and no Combat row
RollInitiativeRejected(user, combat_id) == ~IsGM(user) \/ combat_id # "c1"

\* the HTTP status roll_initiative answers with
RollInitiativeStatus(user, combat_id) == IF ~IsGM(user) THEN 403 ELSE 200

\* one roll_initiative request; rolls[i] is the randint(1, 6) of combatant i
RollInitiativeCall(user, combat_id, rolls) ==
    /\ IF RollInitiativeRejected(user, combat_id)
       THEN UNCHANGED <<combat, combatants>>
       ELSE /\ combatants' = [i \in DOMAIN combatants |->
                  [combatants[i] EXCEPT !.initiative_score = InitiativeScore(combatants[i], rolls[i])]]
            /\ combat' = StartedCombat
    /\ UNCHANGED <<combat_log, turn_obs>>
    /\ UNCHANGED <<diceVars, matrixVars, raceVars, reviewVars>>

\* a rejected request draws no die
RollInitiativeForAll ==
    \E user \in Users, combat_id \in CombatIds :
        \E rolls \in IF RollInitiativeRejected(user, combat_id) THEN {<<>>}
                     ELSE [DOMAIN combatants -> RollFaces(Len(combatants))] :
            RollInitiativeCall(user, combat_id, rolls)

NextTurn ==
    \E user \in Users, combat_id \in CombatIds :
        /\ NextTurnCall(user, combat_id)
        /\ combat'.current_round <= MaxRound
        /\ UNCHANGED turn_obs

\* apply_damage, of a full stun monitor
KnockOut ==
    \E user \in Users, id \in CombatantIds : ApplyDamageCall(user, id, 0, BigDelta)

\* the transitions the tracker leaves to its caller: active <-> paused,
\* and active or paused -> completed
PauseCombat ==
    /\ combat.status = "active"
    /\ combat' = [combat EXCEPT !.status = "paused"]
    /\ UNCHANGED <<combatants, combat_log, turn_obs>>
    /\ UNCHANGED <<diceVars, matrixVars, raceVars, reviewVars>>

ResumeCombat ==
    /\ combat.status = "paused"
    /\ combat' = [combat EXCEPT !.status = "active"]
    /\ UNCHANGED <<combatants, combat_log, turn_obs>>
    /\ UNCHANGED <<diceVars, matrixVars, raceVars, reviewVars>>

CompleteCombat ==
    /\ combat.status \in {"active", "paused"}
    /\ combat' = [combat EXCEPT !.status = "completed"]
    /\ UNCHANGED <<combatants, combat_log, turn_obs>>
    /\ UNCHANGED <<diceVars, matrixVars, raceVars, reviewVars>>

\* an encounter as create_combat leaves it, without combatants
InitCombat ==
    /\ NoDiceCall
    /\ NoMatrix
    /\ NoRequests
    /\ combat = NewCombat
    /\ combatants = <<>>
    /\ combat_log = 0
    /\ turn_obs = None

NextCombat ==
    \/ AddCombatant
    \/ RollInitiativeForAll
    \/ NextTurn
    \/ KnockOut
    \/ PauseCombat
    \/ ResumeCombat
    \/ CompleteCombat

SpecCombat == InitCombat /\ [][NextCombat]_vars

----------------------------------------------------------------------------
(* Matrix engine: routes/matrix.py over the MatrixNode, MatrixPersona,      *)
(* IceProgram and MatrixAction rows of app.py.  The node rows are given:    *)
(* a host with its subsystems and its ICE node, with the securities         *)
(* generate_grid_nodes stores, and a node of a second grid.  The handlers   *)
(* write only the flags of a node, which are the state.                     *)

NodeRow(grid_id, node_type, security, connected_nodes) ==
    [grid_id |-> grid_id, node_type |-> node_type, security |-> security,
     connected_nodes |-> connected_nodes]

\* connected_nodes names rows of the same grid, a row of the other grid
\* ("data-2" for the host, "node-1" for "data-2") and no row at all ("node-2")
NodeTable ==
    "host"   :> NodeRow("g1", "host", 8, <<"node-1", "ice-1", "data-2", "node-2">>) @@
    "node-1" :> NodeRow("g1", "device", 6, <<"data-1">>) @@
    "data-1" :> NodeRow("g1", "data", 4, <<>>) @@
    "ice-1"  :> NodeRow("g1", "ice", 6, <<>>) @@
    "data-2" :> NodeRow("g2", "data", 7, <<"node-1">>)

NodeIds == DOMAIN NodeTable

\* a request that names no node
NoNode == "no-node"

\* a target_node_id no row has
UnknownNode == "node-9"

TargetIds == NodeIds \cup {NoNode, UnknownNode}

GridIds == {"g1", "g2", "unknown"}

PersonaIds == {"p1", "unknown"}

IceIds == {"ic1", "unknown"}

\* the node the stored IceProgram is assigned to
IceNode == "ice-1"

ActionTypes == {"hack", "search", "crash", "other"}

\* randint(1, 6) + randint(1, 6)
TwoD6 == {d1 + d2 : d1 \in D6, d2 \in D6}

DefaultDifficulty == 3
MaxOverwatch == 40

\* the flags as generate_grid_nodes stores them
NewNodes ==
    [n \in NodeIds |-> [discovered |-> NodeTable[n].node_type \in {"host", "ice"},
                        compromised |-> FALSE]]

\* the attributes create_matrix_persona stores by default, and a weaker deck
PersonaProfiles ==
    {[attack |-> 4, sleaze |-> 5, data_processing |-> 6],
     [attack |-> 1, sleaze |-> 2, data_processing |-> 0]}

\* the IceProgram row as generate_grid_nodes stores it; the position is
\* counted in steps from there
NewIce == [status |-> "active", position_x |-> 0, position_y |-> 0, last_action |-> None]

\* target_node: the row, or None
HasTarget(target) == target \in NodeIds

Difficulty(target) == IF HasTarget(target) THEN NodeTable[target].security ELSE DefaultDifficulty

\* hack reads target_node.compromised: an AttributeError when there is no row
ActionRaises(action_type, target) == action_type = "hack" /\ ~HasTarget(target)

ActionRejected(persona_id, action_type, target) ==
    persona_id # "p1" \/ ActionRaises(action_type, target)

AttributeMutant(action_type, target) ==
    CASE action_type = "search" -> persona.data_processing
      [] action_type = "crash" -> persona.attack
      [] OTHER -> persona.sleaze
\* the if / elif chain over action_type
Attribute(action_type, target) ==
    CASE action_type = "hack" ->
            IF ~nodes[target].compromised THEN persona.sleaze ELSE persona.attack
      [] action_type = "search" -> persona.data_processing
      [] action_type = "crash" -> persona.attack
      [] OTHER -> persona.sleaze

ActionSucceeds(action_type, target, roll) ==
    roll + Attribute(action_type, target) >= Difficulty(target)

NeighboursMutant(target) ==
    {n \in NodeIds : \E k \in DOMAIN NodeTable[target].connected_nodes :
                        NodeTable[target].connected_nodes[k] = n}
\* the rows filter_by(id=node_id, grid_id=target_node.grid_id) finds for the
\* ids of the target's connected_nodes
Neighbours(target) ==
    {n \in NodeIds : /\ \E k \in DOMAIN NodeTable[target].connected_nodes :
                          NodeTable[target].connected_nodes[k] = n
                     /\ NodeTable[n].grid_id = NodeTable[target].grid_id}

DiscoveredMutant(ns, found) ==
    [n \in NodeIds |-> [ns[n] EXCEPT !.discovered = n \in found]]
\* discovered = True on every row of the set
Discovered(ns, found) ==
    [n \in NodeIds |-> IF n \in found THEN [ns[n] EXCEPT !.discovered = TRUE] ELSE ns[n]]

OverwatchAfterFailureMutant(score, difficulty) == score + difficulty
\* min(40, overwatch_score + overwatch)
OverwatchAfterFailure(score, difficulty) == Min(MaxOverwatch, score + difficulty)

\* crash of a node of type 'ice' that the IceProgram is assigned to
IceCrashedBy(action_type, target) ==
    /\ action_type = "crash"
    /\ HasTarget(target)
    /\ NodeTable[target].node_type = "ice"
    /\ target = IceNode

\* one perform_matrix_action request; roll is the sum of its two dice
PerformActionCall(persona_id, action_type, target, roll) ==
    /\ IF ActionRejected(persona_id, action_type, target)
       THEN UNCHANGED <<nodes, persona, ice, matrix_log>>
       ELSE /\ IF ActionSucceeds(action_type, target, roll)
               THEN /\ nodes' =
                          IF action_type = "hack" /\ HasTarget(target)
                          THEN Discovered([nodes EXCEPT ![target].compromised = TRUE],
                                          Neighbours(target))
                          ELSE IF action_type = "search" /\ HasTarget(target)
                          THEN Discovered(nodes, Neighbours(target))
                          ELSE nodes
                    /\ ice' = IF IceCrashedBy(action_type, target)
                              THEN [ice EXCEPT !.status = "crashed"]
                              ELSE ice
                    /\ UNCHANGED persona
               ELSE /\ persona' = [persona EXCEPT !.overwatch_score =
                          OverwatchAfterFailure(@, Difficulty(target))]
                    /\ UNCHANGED <<nodes, ice>>
            /\ matrix_log' = matrix_log + 1
    /\ UNCHANGED <<diceVars, combatVars, raceVars, reviewVars>>

OverwatchGeneratedMutant(action_type, target, roll) == Difficulty(target)
\* the overwatch a request generates: the difficulty when it fails
OverwatchGenerated(action_type, target, roll) ==
    IF ActionSucceeds(action_type, target, roll) THEN 0 ELSE Difficulty(target)

\* the MatrixAction row an accepted request adds
ActionRecord(action_type, target, roll) ==
    [persona_id |-> "p1", action_type |-> action_type, target_node_id |-> target,
     success |-> ActionSucceeds(action_type, target, roll),
     rolls |-> [roll |-> roll, attribute |-> Attribute(action_type, target),
                difficulty |-> Difficulty(target)],
     overwatch_generated |-> OverwatchGenerated(action_type, target, roll)]

\* the body of the 200 answer of an accepted request
ActionResponse(action_type, target, roll) ==
    [success |-> ActionSucceeds(action_type, target, roll),
     roll |-> roll,
     attribute |-> Attribute(action_type, target),
     difficulty |-> Difficulty(target),
     overwatch_generated |-> OverwatchGenerated(action_type, target, roll),
     current_overwatch |->
        IF ActionSucceeds(action_type, target, roll) THEN persona.overwatch_score
        ELSE OverwatchAfterFailure(persona.overwatch_score, Difficulty(target))]

\* a rejected request is followed for one roll only: it changes no row
PerformAction ==
    \E persona_id \in PersonaIds, action_type \in ActionTypes, target \in TargetIds :
        \E roll \in IF ActionRejected(persona_id, action_type, target) THEN {2} ELSE TwoD6 :
            /\ ActionRejected(persona_id, action_type, target) \/ matrix_log < MaxMatrixLog
            /\ PerformActionCall(persona_id, action_type, target, roll)

PerceivedMutant(grid_id, perception_roll) ==
    {n \in NodeIds : /\ NodeTable[n].grid_id = grid_id
                     /\ ~nodes[n].discovered
                     /\ perception_roll >= NodeTable[n].security}
\* the undiscovered rows of the grid that the perception roll exceeds
Perceived(grid_id, perception_roll) ==
    {n \in NodeIds : /\ NodeTable[n].grid_id = grid_id
                     /\ ~nodes[n].discovered
                     /\ perception_roll > NodeTable[n].security}

\* one matrix_perception request; 404 for an unknown persona
MatrixPerceptionCall(persona_id, grid_id, roll) ==
    /\ nodes' = IF persona_id # "p1" THEN nodes
                ELSE Discovered(nodes, Perceived(grid_id, roll + persona.data_processing))
    /\ UNCHANGED <<persona, ice, matrix_log>>
    /\ UNCHANGED <<diceVars, combatVars, raceVars, reviewVars>>

\* the body matrix_perception answers an accepted request with
PerceptionResponse(grid_id, roll) ==
    [perception_roll |-> roll + persona.data_processing,
     discovered_count |-> Cardinality(Perceived(grid_id, roll + persona.data_processing))]

MatrixPerception ==
    \E persona_id \in PersonaIds, grid_id \in GridIds, roll \in TwoD6 :
        MatrixPerceptionCall(persona_id, grid_id, roll)

IceInactiveMutant(ice_id) == ice_id # "ic1"
\* not ice or ice.status != 'active'
IceInactive(ice_id) == ice_id # "ic1" \/ ice.status # "active"

\* (random.random() - 0.5) * 0.5: a step down or up
Drift == {0 - 1, 1}

\* the time of the next update: later than every time stored
Now == IF ice.last_action = None THEN 1 ELSE ice.last_action[1] + 1

\* one get_ice_behavior request
IceBehaviorCall(ice_id, dx, dy) ==
    /\ ice' = IF IceInactive(ice_id) THEN ice
              ELSE [ice EXCEPT !.position_x = @ + dx,
                               !.position_y = @ + dy,
                               !.last_action = Some(Now)]
    /\ UNCHANGED <<nodes, persona, matrix_log>>
    /\ UNCHANGED <<diceVars, combatVars, raceVars, reviewVars>>

IceBehavior ==
    \E ice_id \in IceIds, dx \in Drift, dy \in Drift :
        /\ Now <= MaxTicks
        /\ IceBehaviorCall(ice_id, dx, dy)

\* overwatch as stored for a new persona, and after five failed actions
\* against a node of security 7
OverwatchStarts == {0, 35}

InitMatrix ==
    /\ NoDiceCall
    /\ NoCombat
    /\ NoRequests
    /\ nodes = NewNodes
    /\ \E profile \in PersonaProfiles, score \in OverwatchStarts :
          persona = [attack |-> profile.attack, sleaze |-> profile.sleaze,
                     data_processing |-> profile.data_processing,
                     overwatch_score |-> score]
    /\ ice = NewIce
    /\ matrix_log = 0

NextMatrix == PerformAction \/ MatrixPerception \/ IceBehavior

SpecMatrix == InitMatrix /\ [][NextMatrix]_vars

\* the requests of a persona alone, without the behaviour updates of the ICE
NextGrid == PerformAction \/ MatrixPerception

SpecGrid == InitMatrix /\ [][NextGrid]_vars

----------------------------------------------------------------------------
(* Combat tracker: apply_damage requests served side by side.  Each request *)
(* runs in a session of its own: Combatant.query.get loads the row, the     *)
(* handler computes on the loaded copy and the commit flushes an UPDATE of  *)
(* the columns whose value changed.  Nothing locks the row in between.      *)

Requests == 1..MaxRequests

\* the combatant every request names
RaceTarget == 1

RacePhysical == {0, 1, 2}
RaceStun == {0, 1}

\* the request has passed the checks and holds the row as stored now
LoadCombatant(r) ==
    /\ inflight[r].pc = "received"
    /\ inflight' =
          IF DamageRejected(inflight[r].user, RaceTarget)
          THEN [inflight EXCEPT ![r].pc = "done"]
          ELSE [inflight EXCEPT ![r].pc = "loaded", ![r].row = combatants[RaceTarget]]
    /\ UNCHANGED <<combatVars, diceVars, matrixVars, reviewVars>>

\* the UPDATE of a commit: the columns whose value differs from the loaded one
Flushed(stored, loaded, new) ==
    [stored EXCEPT
        !.physical_damage = IF new.physical_damage # loaded.physical_damage
                            THEN new.physical_damage ELSE @,
        !.stun_damage = IF new.stun_damage # loaded.stun_damage THEN new.stun_damage ELSE @,
        !.status = IF new.status # loaded.status THEN new.status ELSE @]

\* the request clamps, derives the status and commits
CommitDamage(r) ==
    /\ inflight[r].pc = "loaded"
    /\ LET loaded == inflight[r].row
           new == Damaged(loaded, inflight[r].physical_damage, inflight[r].stun_damage)
       IN  combatants' = [combatants EXCEPT
                             ![RaceTarget] = Flushed(combatants[RaceTarget], loaded, new)]
    /\ inflight' = [inflight EXCEPT ![r].pc = "done"]
    /\ UNCHANGED <<combat, combat_log, turn_obs>>
    /\ UNCHANGED <<diceVars, matrixVars, reviewVars>>

\* the row all requests start from
RaceStart == DefaultCombatant

InitRace ==
    /\ NoDiceCall
    /\ NoMatrix
    /\ combat = NewCombat
    /\ combatants = <<RaceStart>>
    /\ combat_log = 0
    /\ turn_obs = None
    /\ inflight \in [Requests -> [pc : {"received"}, user : Users,
                                  physical_damage : RacePhysical, stun_damage : RaceStun,
                                  row : {None}]]
    /\ pending = None
    /\ review_history = <<>>

NextRace == \E r \in Requests : LoadCombatant(r) \/ CommitDamage(r)

SpecRace == InitRace /\ [][NextRace]_vars

----------------------------------------------------------------------------
(* DM review of a pending AI response: review_response of app.py over the   *)
(* PendingResponse row and the ReviewHistory rows                           *)

\* the stored response and an id no PendingResponse row has
ResponseIds == {"r1", "unknown"}

\* the users of a session and a request that names none
ReviewUsers == Users \cup {""}

\* the three reviews, an action the handler does not know and a missing one
ReviewActions == {"approve", "reject", "edit", "bogus", ""}

ReviewTexts == {"", "rewritten"}

ReviewNotes == {"", "ok"}

\* PendingResponse row as the AI pipeline stores it
NewPending ==
    [status |-> "pending", ai_response |-> "answer", final_response |-> None, dm_notes |-> None]

\* the HTTP status review_response answers with
ReviewStatus(user, response_id, action) ==
    IF user = "" \/ action = "" THEN 400
    ELSE IF ~IsGM(user) THEN 403
    ELSE IF response_id # "r1" THEN 404
    ELSE IF action \notin {"approve", "reject", "edit"} THEN 400
    ELSE 200

\* the status a review leaves, whatever the status was
ReviewedStatus(row, action) ==
    IF action = "approve" THEN "approved"
    ELSE IF action = "reject" THEN "rejected"
    ELSE "edited"

FinalResponse(row, action, final_response) ==
    IF action = "approve" THEN Some(row.ai_response)
    ELSE IF action = "reject" THEN None
    ELSE Some(final_response)

\* one review_response request
ReviewCall(user, response_id, action, final_response, dm_notes) ==
    IF ReviewStatus(user, response_id, action) # 200
    THEN UNCHANGED <<pending, review_history>>
    ELSE /\ pending' = [pending EXCEPT
                           !.status = ReviewedStatus(pending, action),
                           !.final_response = FinalResponse(pending, action, final_response),
                           !.dm_notes = Some(dm_notes)]
         /\ review_history' =
               Append(review_history,
                      [dm_user_id |-> user, action |-> action,
                       original_response |-> pending.ai_response,
                       final_response |-> FinalResponse(pending, action, final_response),
                       notes |-> dm_notes])

ReviewResponse ==
    \E user \in ReviewUsers, response_id \in ResponseIds, action \in ReviewActions,
       final_response \in ReviewTexts, dm_notes \in ReviewNotes :
        /\ ReviewStatus(user, response_id, action) = 200 => Len(review_history) < MaxReviews
        /\ ReviewCall(user, response_id, action, final_response, dm_notes)
        /\ UNCHANGED <<diceVars, combatVars, matrixVars, raceVars>>

InitReview ==
    /\ NoDiceCall
    /\ NoCombat
    /\ NoMatrix
    /\ inflight = <<>>
    /\ pending = NewPending
    /\ review_history = <<>>

NextReview == ReviewResponse

SpecReview == InitReview /\ [][NextReview]_vars

----------------------------------------------------------------------------
(* Properties *)

Returned(o) == op = o /\ pc = "returned"
Finished(o) == op = o /\ pc # "call"

\* the notation grammar as the specification states it: optional
\* whitespace, 1-2 ASCII digits, d or D, 1-3 ASCII digits, optionally a
\* sign and 1-2 ASCII digits, optional whitespace
StatedForm(raw) == DiceMatch(lower(strip(raw)), 2, 3, 2, AsciiDigits)
StatedN(raw) == IntOfDigits(StatedForm(raw).g1)
StatedS(raw) == IntOfDigits(StatedForm(raw).g2)
StatedM(raw) ==
    IF StatedForm(raw).g3 = <<>> THEN 0 ELSE IntOfSigned(StatedForm(raw).g3)

RaisedWithoutDraw == pc = "raised" /\ draws = 0 /\ result = NoResult

\* C1: a notation NdS(+/-M) whose range is malformed (N = 0, N > 20, S = 0
\* or S > 100) makes roll() raise without drawing a die and without
\* returning a DiceRoll.
C1_RangeErrorRaises ==
    (Finished("roll") /\ StatedForm(args.notation).ok
       /\ (StatedN(args.notation) = 0 \/ StatedN(args.notation) > 20
           \/ StatedS(args.notation) = 0 \/ StatedS(args.notation) > 100))
    => RaisedWithoutDraw

\* C2: roll() accepts only strings of the stated ASCII form; every other
\* string raises before a die is drawn.
C2_OnlyStatedFormAccepted ==
    (Finished("roll") /\ ~StatedForm(args.notation).ok) => RaisedWithoutDraw

C4_OnesCountAllRolls ==
    Returned("roll_shadowrun")
    => result.ones = Cardinality({i \in 1..Len(result.rolls) : result.rolls[i] = 1})

\* C5: the hits field of a roll_shadowrun result is the number of recorded
\* rolls of value 5 or more, over the initial and the exploded dice.
C5_HitsCountAllRolls ==
    Returned("roll_shadowrun")
    => result.hits = Cardinality({i \in 1..Len(result.rolls) : result.rolls[i] >= 5})

C5_Witness ==
    /\ Returned("roll_shadowrun")
    /\ result.edge_used
    /\ Len(result.rolls) = result.dice_pool + 2
    /\ result.rolls[Len(result.rolls)] = 5
    /\ result.hits = 3

\* C6: glitch holds exactly when the reported ones exceed
\* floor(len(rolls)/2) on the final roll list, critical_glitch exactly when
\* glitch holds and hits = 0; six dice all showing 1 give hits = 0,
\* ones = 6, glitch and critical_glitch.
C6_GlitchRule ==
    Returned("roll_shadowrun")
    => /\ result.glitch <=> (result.ones > Len(result.rolls) \div 2)
       /\ result.critical_glitch <=> (result.glitch /\ result.hits = 0)
       /\ (result.dice_pool = 6 /\ \A i \in 1..Len(result.rolls) : result.rolls[i] = 1)
            => (result.hits = 0 /\ result.ones = 6
                /\ result.glitch /\ result.critical_glitch)

C6_Witness ==
    /\ Returned("roll_shadowrun")
    /\ result.dice_pool = 6
    /\ result.rolls = <<1, 1, 1, 1, 1, 1>>
    /\ result.critical_glitch

InitialDice ==
    IF op = "roll_shadowrun" THEN args.dice_pool
    ELSE IF args.initiative_dice >= 0 THEN args.initiative_dice ELSE 0

RecordedRolls ==
    IF op = "roll_shadowrun" THEN result.rolls ELSE result.dice_rolls

\* C7: with Edge the number of recorded rolls of roll_shadowrun and of
\* roll_initiative is the number of initial dice plus the number of
\* recorded 6s; without Edge it is the number of initial dice.
C7_ExplodingSixes ==
    (Returned("roll_shadowrun") \/ Returned("roll_initiative"))
    => Len(RecordedRolls) =
         InitialDice
         + (IF args.edge_used
            THEN Cardinality({i \in 1..Len(RecordedRolls) : RecordedRolls[i] = 6})
            ELSE 0)

C7_Witness ==
    /\ Returned("roll_initiative")
    /\ args.edge_used
    /\ args.initiative_dice = 1
    /\ result.dice_rolls = <<6, 6, 5>>

\* C8: a pool outside [1,50] given to roll_shadowrun or to
\* roll_extended_test raises without drawing a die.
C8_PoolOutOfRangeRaises ==
    ((Finished("roll_shadowrun") \/ Finished("roll_extended_test"))
       /\ (args.dice_pool < 1 \/ args.dice_pool > 50))
    => RaisedWithoutDraw

\* C9: for a call of roll_extended_test (with a pool within [1,50] and
\* max_rolls absent or positive) rolls_made is the length of roll_history
\* and, when max_rolls is given, does not exceed max_rolls.
C9_RollsMadeBounded ==
    (Returned("roll_extended_test")
       /\ 1 <= args.dice_pool /\ args.dice_pool <= 50
       /\ (args.max_rolls = None \/ args.max_rolls[1] >= 1))
    => /\ result.rolls_made = Len(result.roll_history)
       /\ args.max_rolls # None => result.rolls_made <= args.max_rolls[1]

HitsUpTo(h, k) == Sum([i \in 1..k |-> h[i].hits])

\* C10: the k-th roll of roll_extended_test uses a pool of
\* max(1, pool-(k-1)); total_hits is the sum of the hits of roll_history; a
\* roll is made only while the accumulated hits are below the threshold and
\* no earlier roll was a critical glitch; success is total_hits >=
\* threshold; glitched tells whether some roll glitched.
C10_ExtendedProtocol ==
    Returned("roll_extended_test")
    => LET h == result.roll_history
       IN  /\ \A k \in 1..Len(h) :
                /\ h[k].dice_pool =
                     (IF args.dice_pool - (k - 1) >= 1
                      THEN args.dice_pool - (k - 1) ELSE 1)
                /\ Len(h[k].rolls) = h[k].dice_pool
                /\ HitsUpTo(h, k - 1) < args.threshold
                /\ k < Len(h) => ~h[k].critical_glitch
           /\ result.total_hits = HitsUpTo(h, Len(h))
           /\ result.success <=> (result.total_hits >= args.threshold)
           /\ result.glitched <=> (\E k \in 1..Len(h) : h[k].glitch)

C10_Witness ==
    /\ Returned("roll_extended_test")
    /\ args.dice_pool = 2 /\ args.threshold = 2
    /\ Len(result.roll_history) = 3
    /\ result.roll_history[1].dice_pool = 2
    /\ result.roll_history[2].dice_pool = 1
    /\ result.roll_history[3].dice_pool = 1
    /\ result.success /\ ~result.glitched

----------------------------------------------------------------------------
(* Combat tracker: damage *)

DamageApplied(i) ==
    \E pd \in DamageDeltas, sd \in DamageDeltas : ApplyDamageCall("gm", i, pd, sd)

DerivedStatus(c) ==
    IF c.physical_damage = c.physical_monitor THEN "dead"
    ELSE IF c.stun_damage = c.stun_monitor THEN "unconscious"
    ELSE "active"

\* C13: in every state reached from a fresh combatant by applyDamage calls,
\* healing ones included, the status is the one the damage values determine:
\* dead iff physical damage = monitor, else unconscious iff stun damage =
\* monitor, else active
C13_StatusDerivedFromDamage ==
    \A i \in DOMAIN combatants : combatants[i].status = DerivedStatus(combatants[i])

----------------------------------------------------------------------------
(* Combat tracker: turns and life cycle *)

\* C14: from active_index 0 on a roster of N >= 1 combatants, the first N-1
\* advanceTurn calls change only active_index, and the N-th brings it back to
\* 0, raises current_round by one and lowers every combatant's actions by one,
\* not below 0 (stated for every number k of calls: k mod N, k div N)
C14_TurnCycle ==
    LET n == Len(combatants)
        k == turn_obs.calls
    IN  /\ combat.active_combatant_index = k % n
        /\ combat.current_round = turn_obs.current_round + (k \div n)
        /\ \A i \in DOMAIN combatants :
              combatants[i].actions =
                  IF turn_obs.actions[i] - (k \div n) < 0 THEN 0
                  ELSE turn_obs.actions[i] - (k \div n)

\* exactly N = 2 calls made on a roster of a combatant with an action left and
\* one with none
C14_Witness ==
    /\ Len(combatants) = 2
    /\ turn_obs.calls = 2
    /\ turn_obs.actions = <<1, 0>>
    /\ combat.current_round = 2

\* the step is a request of the tracker itself, not a transition of its caller
EngineStep == ~PauseCombat /\ ~ResumeCombat /\ ~CompleteCombat

\* C15: 'completed' is terminal: no engine operation moves a completed
\* encounter to another status, and the only engine transition into 'active'
\* is from 'setup' (by rollInitiativeForAll)
C15_CompletedTerminal ==
    [][EngineStep =>
          /\ combat.status = "completed" => combat'.status = "completed"
          /\ (combat.status # "active" /\ combat'.status = "active") => combat.status = "setup"]_vars

\* the step is an accepted roll_initiative request
\* (of the rolls that lead to the scores of the next state, if any do)
InitiativeRolled ==
    LET rolls == [i \in DOMAIN combatants |->
                    combatants'[i].initiative_score - InitiativeScore(combatants[i], 0)]
    IN  /\ DOMAIN combatants' = DOMAIN combatants
        /\ \A i \in DOMAIN combatants : rolls[i] \in D6
        /\ RollInitiativeCall("gm", "c1", rolls)

\* C16: rollInitiativeForAll sets every combatant's initiative_score to
\* initiative + intuition + r with r in 1..6 drawn per combatant, sets the
\* encounter to status 'active', round 1, active index 0, and changes no
\* combatant's damage, actions or status (nor any other stored attribute)
C16_RollInitiativeForAll ==
    [][InitiativeRolled =>
          /\ combat' = [status |-> "active", current_round |-> 1, active_combatant_index |-> 0]
          /\ Len(combatants') = Len(combatants)
          /\ \A i \in DOMAIN combatants :
                LET old == combatants[i]
                    new == combatants'[i]
                IN  /\ \E r \in 1..6 : new.initiative_score = old.initiative + old.intuition + r
                    /\ new = [old EXCEPT !.initiative_score = new.initiative_score]]_vars

\* initiative rolled anew (round 1 again) for two combatants, lowest and
\* highest roll, that had spent their actions and one of which is unconscious
C16_Witness ==
    /\ combat = [status |-> "active", current_round |-> 1, active_combatant_index |-> 0]
    /\ Len(combatants) = 2
    /\ combatants[1].initiative_score = 14
    /\ combatants[2].initiative_score = 19
    /\ combatants[1].actions = 0
    /\ combatants[2].status = "unconscious"

----------------------------------------------------------------------------
(* Matrix engine *)

\* the step adds a MatrixAction row: it is an accepted perform_matrix_action
ActionLogged == matrix_log' = matrix_log + 1

\* the roll enters the rows a request writes only through the comparison
\* with the difficulty: the highest roll stands for every roll that succeeds,
\* the lowest for every roll that fails
HighRoll == 12
LowRoll == 2

\* the step is a request of the persona that succeeds
Succeeded(action_type, target) ==
    /\ ActionLogged
    /\ ~ActionRaises(action_type, target)
    /\ ActionSucceeds(action_type, target, HighRoll)
    /\ PerformActionCall("p1", action_type, target, HighRoll)

\* the step is a request of the persona that fails
Failed(action_type, target) ==
    /\ ActionLogged
    /\ ~ActionRaises(action_type, target)
    /\ ~ActionSucceeds(action_type, target, LowRoll)
    /\ PerformActionCall("p1", action_type, target, LowRoll)

\* the step is a hack of the persona on node t that succeeds
HackSucceeded(t) == Succeeded("hack", t)

\* the ids a node's connected_nodes lists
Listed(t) == {NodeTable[t].connected_nodes[k] : k \in DOMAIN NodeTable[t].connected_nodes}

\* C17: a successful hack on a target node sets target.compromised and sets
\* discovered on exactly the nodes of the target's grid that the target's
\* connected_nodes lists: no node further away, no node of another grid is
\* discovered in that call, and no other node's compromised flag changes
C17_HackDiscoversNeighbours ==
    [][\A t \in NodeIds :
          HackSucceeded(t) =>
              /\ nodes'[t].compromised
              /\ \A n \in NodeIds :
                    /\ n # t => nodes'[n].compromised = nodes[n].compromised
                    /\ nodes'[n].discovered =
                          (nodes[n].discovered
                             \/ (n \in Listed(t) /\ NodeTable[n].grid_id = NodeTable[t].grid_id))]_vars

\* the host hacked: its neighbour node-1 is discovered, data-1 two hops away
\* and data-2 of the other grid are not
C17_Witness ==
    /\ nodes["host"].compromised
    /\ nodes["node-1"].discovered
    /\ ~nodes["data-1"].discovered
    /\ ~nodes["data-2"].discovered
    /\ \A n \in NodeIds \ {"host"} : ~nodes[n].compromised

\* C18: after any sequence of performAction calls, successful or failed,
\* overwatch_score is within [0, 40] and never lower than before the call;
\* each failed call sets it to min(40, previous + difficulty)
C18_OverwatchBounded ==
    [][/\ persona'.overwatch_score >= 0
       /\ persona'.overwatch_score <= 40
       /\ persona'.overwatch_score >= persona.overwatch_score
       /\ \A action_type \in ActionTypes, target \in TargetIds :
             Failed(action_type, target) =>
                 LET difficulty == IF target \in NodeIds THEN NodeTable[target].security ELSE 3
                     sum == persona.overwatch_score + difficulty
                 IN  persona'.overwatch_score = IF sum > 40 THEN 40 ELSE sum]_vars

\* a failed action whose difficulty would carry the score past the cap
C18_Witness ==
    /\ matrix_log > 0
    /\ persona.overwatch_score = 40

PerceptionMade(grid_id, roll) ==
    /\ matrix_log' = matrix_log
    /\ MatrixPerceptionCall("p1", grid_id, roll)

\* C21: matrixPerception makes one roll = 2d6 + data_processing and with that
\* value sets discovered on every undiscovered node of the given grid whose
\* security is below it; nodes of security >= roll, nodes of other grids,
\* every compromised flag and the overwatch score are unchanged, and
\* discovered_count is the number of nodes newly discovered
C21_PerceptionSinglePass ==
    [][\A grid_id \in GridIds, dice \in TwoD6 :
          PerceptionMade(grid_id, dice) =>
              LET roll == dice + persona.data_processing
                  response == PerceptionResponse(grid_id, dice)
              IN  /\ \A n \in NodeIds :
                        /\ nodes'[n].compromised = nodes[n].compromised
                        /\ nodes'[n].discovered =
                              (nodes[n].discovered
                                 \/ (NodeTable[n].grid_id = grid_id /\ NodeTable[n].security < roll))
                  /\ persona' = persona
                  /\ response.perception_roll = roll
                  /\ response.discovered_count =
                        Cardinality({n \in NodeIds : ~nodes[n].discovered /\ nodes'[n].discovered})]_vars

\* a perception check on the untouched grid that found data-1 (security 4)
\* and not node-1 (security 6)
C21_Witness ==
    /\ matrix_log = 0
    /\ nodes["data-1"].discovered
    /\ ~nodes["node-1"].discovered
    /\ ~nodes["data-2"].discovered

\* the step is a perform_matrix_action request of these arguments
ActionRequested(persona_id, action_type, target) ==
    \/ PerformActionCall(persona_id, action_type, target, LowRoll)
    \/ PerformActionCall(persona_id, action_type, target, HighRoll)

\* C22: performAction against a nonexistent persona, or with a target node
\* id that names no existing node, is rejected and leaves the persona, every
\* node, the ICE program and the action audit log unchanged, for every
\* action type
C22_UnknownTargetRejected ==
    [][\A persona_id \in PersonaIds, action_type \in ActionTypes, target \in TargetIds :
          ((persona_id = "unknown" \/ target = UnknownNode)
              /\ ActionRequested(persona_id, action_type, target))
          => UNCHANGED <<nodes, persona, ice, matrix_log>>]_vars

----------------------------------------------------------------------------
(* Combat tracker: rejected requests and the bounds of the encounter *)

\* the step leaves every field of the encounter and of its combatants
CombatUntouched == combat' = combat /\ combatants' = combatants

\* C23: a rejected combat call answers with an error and leaves the state
\* unchanged: apply_damage, next_turn and roll_initiative of a user who is
\* not the GM, apply_damage on an unknown combatant, next_turn on an unknown
\* encounter or on an empty roster modify no combatant field and no
\* encounter field (status, current_round, active index)
C23_RejectedCallNoChange ==
    [][/\ \A user \in Users, id \in CombatantIds :
             ((user # "gm" \/ id > Len(combatants)) /\ ApplyDamageCall(user, id, 0, BigDelta))
             => (DamageStatus(user, id) >= 400 /\ CombatUntouched)
       /\ \A user \in Users, combat_id \in CombatIds :
             ((user # "gm" \/ combat_id = "unknown" \/ Len(combatants) = 0)
                 /\ NextTurnCall(user, combat_id))
             => (NextTurnStatus(user, combat_id) >= 400 /\ CombatUntouched)
       /\ \A combat_id \in CombatIds :
             RollInitiativeCall("player", combat_id, <<>>)
             => (RollInitiativeStatus("player", combat_id) >= 400 /\ CombatUntouched)]_vars

\* a running encounter in its second round with a knocked-out combatant
\* that has an initiative score: every field a rejected call could have
\* touched holds a value of its own
C23_Witness ==
    /\ combat.status = "active"
    /\ combat.current_round = 2
    /\ combat.active_combatant_index = 1
    /\ Len(combatants) = 2
    /\ combatants[1].status = "unconscious"
    /\ combatants[1].initiative_score > 0

----------------------------------------------------------------------------
(* Requests served side by side *)

\* the orders in which the requests can be served one after another
Orders == {o \in [Requests -> Requests] : \A i, j \in Requests : o[i] = o[j] => i = j}

\* the row after the requests of `order' were served one at a time
RECURSIVE AppliedInOrder(_, _)
AppliedInOrder(c, order) ==
    IF order = <<>> THEN c
    ELSE LET r == inflight[Head(order)]
         IN  AppliedInOrder(IF IsGM(r.user) THEN Damaged(c, r.physical_damage, r.stun_damage)
                            ELSE c,
                            Tail(order))

AllServed == DOMAIN inflight = Requests /\ \A r \in Requests : inflight[r].pc = "done"

\* C24: damage is applied atomically: once several apply_damage requests for
\* the same combatant have run side by side, the stored damage is what
\* serving them one after another leaves; no request's delta is lost
C24_NoLostDelta ==
    AllServed =>
        \E o \in Orders :
            LET c == AppliedInOrder(RaceStart, o)
            IN  /\ combatants[RaceTarget].physical_damage = c.physical_damage
                /\ combatants[RaceTarget].stun_damage = c.stun_damage

\* the reviews that approved the response
Approvals == {i \in DOMAIN review_history : review_history[i].action = "approve"}

\* C25: however many approve requests the GM issues for the same pending
\* response, exactly one succeeds and the others are rejected: the response
\* is reviewed once, so a response that received only approve requests has
\* one review-history entry and status 'approved'
C25_ApprovedOnce ==
    (review_history # <<>> /\ Approvals = DOMAIN review_history)
        => (Len(review_history) = 1 /\ pending.status = "approved")

----------------------------------------------------------------------------
(* Matrix engine: the resolution of an action *)

\* C26: an action succeeds when d1 + d2 + attribute >= difficulty for two
\* dice of 1..6; the difficulty is the target's security when a target node
\* is given and 3 otherwise; the attribute is sleaze for a hack on an
\* uncompromised target, attack for a hack on a compromised target and for
\* crash, data_processing for search; the answer returns the roll, the
\* attribute and the difficulty of that comparison
C26_ResolutionRule ==
    \A action_type \in {"hack", "search", "crash"}, target \in TargetIds, d1 \in D6, d2 \in D6 :
        ~ActionRaises(action_type, target) =>
            LET response == ActionResponse(action_type, target, d1 + d2)
                difficulty == IF target \in NodeIds THEN NodeTable[target].security ELSE 3
                attribute ==
                    IF action_type = "search" THEN persona.data_processing
                    ELSE IF action_type = "crash" THEN persona.attack
                    ELSE IF nodes[target].compromised THEN persona.attack
                    ELSE persona.sleaze
            IN  /\ response.roll = d1 + d2
                /\ response.attribute = attribute
                /\ response.difficulty = difficulty
                /\ response.success = (d1 + d2 + attribute >= difficulty)

\* the host has been hacked: the next hack on it rolls with attack
C26_Witness ==
    /\ matrix_log = 1
    /\ nodes["host"].compromised
    /\ ~nodes["ice-1"].compromised
    /\ persona.attack # persona.sleaze

\* the step is a request of the persona that fails, with or without a record
Fails(action_type, target) ==
    /\ ~ActionRaises(action_type, target)
    /\ ~ActionSucceeds(action_type, target, LowRoll)
    /\ PerformActionCall("p1", action_type, target, LowRoll)

\* the step is a request of the persona that succeeds, with or without a record
Succeeds(action_type, target) ==
    /\ ~ActionRaises(action_type, target)
    /\ ActionSucceeds(action_type, target, HighRoll)
    /\ PerformActionCall("p1", action_type, target, HighRoll)

\* the difficulty the request is rolled against
Security(target) == IF target \in NodeIds THEN NodeTable[target].security ELSE 3

\* C27: the effects of an action are disjoint by outcome.  A failed action
\* changes only the persona's overwatch_score (no discovered or compromised
\* flag, no ICE status) and reports overwatch_generated = difficulty; a
\* successful action leaves overwatch_score unchanged and reports 0; a
\* successful search discovers the target's one-hop neighbours and sets no
\* compromised flag; either way exactly one audit record with the same
\* success and overwatch_generated is added
C27_EffectsByOutcome ==
    [][\A action_type \in ActionTypes, target \in TargetIds :
          /\ Fails(action_type, target)
             => LET response == ActionResponse(action_type, target, LowRoll)
                    record == ActionRecord(action_type, target, LowRoll)
                IN  /\ nodes' = nodes
                    /\ ice' = ice
                    /\ persona' = [persona EXCEPT !.overwatch_score = persona'.overwatch_score]
                    /\ ~response.success
                    /\ response.overwatch_generated = Security(target)
                    /\ record.success = response.success
                    /\ record.overwatch_generated = response.overwatch_generated
                    /\ matrix_log' = matrix_log + 1
          /\ Succeeds(action_type, target)
             => LET response == ActionResponse(action_type, target, HighRoll)
                    record == ActionRecord(action_type, target, HighRoll)
                IN  /\ persona'.overwatch_score = persona.overwatch_score
                    /\ response.success
                    /\ response.overwatch_generated = 0
                    /\ record.success = response.success
                    /\ record.overwatch_generated = response.overwatch_generated
                    /\ matrix_log' = matrix_log + 1
                    /\ action_type = "search" =>
                          \A n \in NodeIds :
                             /\ nodes'[n].compromised = nodes[n].compromised
                             /\ nodes'[n].discovered =
                                   (nodes[n].discovered
                                      \/ /\ target \in NodeIds
                                         /\ n \in Listed(target)
                                         /\ NodeTable[n].grid_id = NodeTable[target].grid_id)]_vars

\* one failed action on the host: the overwatch rose by its security, no flag moved
C27_Witness ==
    /\ matrix_log = 1
    /\ persona.overwatch_score = 8
    /\ nodes = NewNodes
    /\ ice = NewIce

----------------------------------------------------------------------------
(* Combat tracker: the bounds of the turn pointer and of the round *)

\* the active index names a combatant of a non-empty roster, the round is positive
TurnPointerInRange ==
    /\ combatants # <<>> =>
          combat.active_combatant_index \in 0..(Len(combatants) - 1)
    /\ combat.current_round >= 1

\* the step changes the round as a wrap-around of next_turn does
WrappedAround ==
    /\ combat'.current_round = combat.current_round + 1
    /\ combat.active_combatant_index = Len(combatants) - 1
    /\ combat'.active_combatant_index = 0
    /\ NextTurnCall("gm", "c1")

\* the step changes the round as roll_initiative does
ResetByInitiative ==
    /\ combat'.current_round = 1
    /\ InitiativeRolled

\* C28: whenever the roster is non-empty, the active index is in
\* [0, roster size - 1] after any sequence of add-combatant, roll-initiative
\* and next-turn calls; the round is at least 1 and changes only by +1 on a
\* wrap-around of next_turn or by the reset to 1 of roll_initiative
C28_TurnPointerBounds ==
    [][/\ TurnPointerInRange'
       /\ combat'.current_round # combat.current_round
             => (WrappedAround \/ ResetByInitiative)]_vars

\* round 2 reached by a wrap-around over a roster of two, the last combatant active
C28_Witness ==
    /\ Len(combatants) = 2
    /\ combat.current_round = 2
    /\ combat.active_combatant_index = 1
    /\ combat.status = "active"
    /\ \A i \in DOMAIN combatants : combatants[i].status = "active"

----------------------------------------------------------------------------
(* Matrix engine: compromise and discovery *)

\* C29: in every state reached by actions and perception calls from a grid
\* with no compromised node, every compromised node is also discovered: a
\* node is not hacked into the compromised state while it is undiscovered
C29_CompromisedDiscovered ==
    \A n \in NodeIds : nodes[n].compromised => nodes[n].discovered

----------------------------------------------------------------------------
(* Combat tracker: a dead combatant under further damage *)

====
